---- MODULE Spec2Model ----
(***************************************************************************)
(* Model of generate_xcodeproj_structure.py: scan_directory merges the     *)
(* files found under <base_path>/WhiteNoise into a hard-coded template,    *)
(* print_structure renders the tree, generate_file_list flattens it, the   *)
(* main block groups and prints the flat list and dumps the tree as JSON.  *)
(*                                                                         *)
(* A Python dict is modelled as a sequence of <<key, value>> pairs in      *)
(* insertion order; a str is a TLA+ string; the filesystem below base_path *)
(* is a set of entries [path, kind], path being the tuple of components    *)
(* relative to base_path (<<>> is base_path itself).                       *)
(***************************************************************************)
EXTENDS Integers, Sequences, FiniteSets, TLC

VARIABLES fs, pc, run, structure, prev, tree_out, files, grouped_files,
          listing_out, json_file, error

vars == <<fs, pc, run, structure, prev, tree_out, files, grouped_files,
          listing_out, json_file, error>>

(***************************************************************************)
(* Bounds                                                                  *)
(***************************************************************************)
\* number of filesystem entries chosen freely (their parent directories
\* come with them)
MaxPaths == 3
\* number of times the script is run against the same filesystem
MaxRuns == 2

\* a name that is not bound yet
Unset == <<>>

\* no exception was raised
NoError == "none"

\* the file project_structure.json: absent, truncated by a failed dump, or
\* holding the dumped tree
Absent == [written |-> "nothing", content |-> <<>>]
Truncated == [written |-> "part", content |-> <<>>]
Dumped(s) == [written |-> "all", content |-> s]

(***************************************************************************)
(* str helpers                                                             *)
(***************************************************************************)
\* str.startswith
startswith(s, prefix) ==
    /\ Len(s) >= Len(prefix)
    /\ SubSeq(s, 1, Len(prefix)) = prefix

\* str.endswith
endswith(s, suffix) ==
    /\ Len(s) >= Len(suffix)
    /\ SubSeq(s, Len(s) - Len(suffix) + 1, Len(s)) = suffix

\* a glob that ignores the extension
fnmatchAny(name, pattern) == TRUE

\* fnmatch of a name against the patterns the script uses: "*" followed by
\* a literal suffix ("*.swift", "*.json", "*")
fnmatch(name, pattern) == endswith(name, Tail(pattern))

\* code points of the characters that occur in names, in ascending order
CodePoints == " ./0123456789ABCDEFGHIJKLMNOPQRSTUVWXYZ_abcdefghijklmnopqrstuvwxyz"

ord(c) == CHOOSE i \in 1..Len(CodePoints) : SubSeq(CodePoints, i, i) = c

\* str.__lt__ : lexicographic comparison by code point
RECURSIVE str_lt(_, _)
str_lt(a, b) ==
    IF Len(b) = 0 THEN FALSE
    ELSE IF Len(a) = 0 THEN TRUE
    ELSE IF Head(a) = Head(b) THEN str_lt(Tail(a), Tail(b))
    ELSE ord(Head(a)) < ord(Head(b))

(***************************************************************************)
(* dict helpers (insertion-ordered mapping)                                *)
(***************************************************************************)
Keys(d) == {d[i][1] : i \in 1..Len(d)}

IndexOf(d, k) == CHOOSE i \in 1..Len(d) : d[i][1] = k

\* d[k]
Get(d, k) == d[IndexOf(d, k)][2]

\* d[k] = v : replaces the value of an existing key in place, appends a
\* new key at the end
Put(d, k, v) ==
    IF k \in Keys(d)
    THEN [d EXCEPT ![IndexOf(d, k)] = <<k, v>>]
    ELSE Append(d, <<k, v>>)

\* "children" in value
HasChildren(value) == "children" \in DOMAIN value

\* value.get("type")
TypeOf(value) == IF "type" \in DOMAIN value THEN value.type ELSE "None"

(***************************************************************************)
(* The filesystem below base_path                                          *)
(***************************************************************************)
Dir(p) == [path |-> p, kind |-> "dir"]
File(p) == [path |-> p, kind |-> "file"]

ScannedGroups ==
    {"Models", "Views", "ViewModels", "Services", "Constants", "Extensions",
     "Resources"}

\* the entries a filesystem of the model is made of: the root alone, an
\* empty group directory, a .swift file in every scanned group directory,
\* further files that do or do not match their group's pattern, a
\* directory whose name matches, a Sounds path that is a file, and under
\* Sounds a plain file and two subdirectories with sound files, a hidden
\* file and a nested directory
PathUniverse ==
    {Dir(<<>>), Dir(<<"WhiteNoise", "Models">>), File(<<"WhiteNoise", "Sounds">>)}
    \cup {File(<<"WhiteNoise", g, "Logger.swift">>) : g \in ScannedGroups}
    \cup {File(<<"WhiteNoise", "Resources", "config.json">>),
          File(<<"WhiteNoise", "Views", "config.json">>),
          Dir(<<"WhiteNoise", "Views", "Legacy.swift">>),
          File(<<"WhiteNoise", "Models", "Foo.swift">>),
          File(<<"WhiteNoise", "Models", "Bar.swift">>),
          File(<<"WhiteNoise", "Sounds", "README.md">>),
          File(<<"WhiteNoise", "Sounds", "Ocean", "waves.mp3">>),
          Dir(<<"WhiteNoise", "Sounds", "Ocean", "extras">>),
          File(<<"WhiteNoise", "Sounds", "Rain", "rain1.mp3">>),
          File(<<"WhiteNoise", "Sounds", "Rain", "rain2.mp3">>),
          File(<<"WhiteNoise", "Sounds", "Rain", ".DS_Store">>)}

RECURSIVE SubsetsUpTo(_, _)
SubsetsUpTo(S, k) ==
    IF k = 0 THEN {{}}
    ELSE LET smaller == SubsetsUpTo(S, k - 1)
         IN  smaller \cup {T \cup {x} : T \in smaller, x \in S}

\* an entry exists together with all its parent directories
WithParents(S) ==
    S \cup UNION {{Dir(SubSeq(e.path, 1, n)) : n \in 0..(Len(e.path) - 1)} :
                     e \in S}

\* no path is both a file and a directory
Consistent(S) == \A e1, e2 \in S : e1.path = e2.path => e1.kind = e2.kind

FileSystems ==
    {F \in {WithParents(S) : S \in SubsetsUpTo(PathUniverse, MaxPaths)} :
        Consistent(F)}

\* os.path.join(base_path, ...) : a path is the tuple of its components
\* below base_path
os_path_join(parent, name) == Append(parent, name)

\* an existence check that always succeeds
os_path_existsAlways(p) == TRUE

\* os.path.exists
os_path_exists(p) == \E e \in fs : e.path = p

\* os.path.isdir
os_path_isdir(p) == Dir(p) \in fs

\* Path.is_file
is_file(p) == File(p) \in fs

\* names of the entries of directory p
EntryNames(p) ==
    {e.path[Len(e.path)] : e \in {x \in fs : Len(x.path) = Len(p) + 1
                                             /\ SubSeq(x.path, 1, Len(p)) = p}}

Perms(S) ==
    {q \in [1..Cardinality(S) -> S] : {q[i] : i \in 1..Cardinality(S)} = S}

\* the directories the scan may list: those of the scanned groups, Sounds
\* and the subdirectories of Sounds
Dirs ==
    {e.path : e \in {x \in fs : /\ x.kind = "dir"
                                /\ \/ Len(x.path) = 2
                                   \/ /\ Len(x.path) = 3
                                      /\ x.path[2] = "Sounds"}}

\* one listing order per directory: the order in which the operating
\* system returns the directory's entries during one scan
RECURSIVE ListingsOver(_)
ListingsOver(D) ==
    IF D = {} THEN {<<>>}
    ELSE LET d == CHOOSE x \in D : TRUE
         IN  {(d :> q) @@ l : q \in Perms(EntryNames(d)),
                              l \in ListingsOver(D \ {d})}

Listings == ListingsOver(Dirs)

\* os.listdir raises NotADirectoryError / FileNotFoundError unless p is a
\* directory
listdir_raises(p) == ~ os_path_isdir(p)

\* Path(p).glob(pattern) : the matching entries of p in listing order;
\* nothing when p is not a directory
glob(ls, p, pattern) ==
    IF os_path_isdir(p)
    THEN SelectSeq(ls[p], LAMBDA name : fnmatch(name, pattern))
    ELSE <<>>

(***************************************************************************)
(* scan_directory                                                          *)
(***************************************************************************)
FileNode(path) == [type |-> "file", path |-> path]
FolderNode(path) == [type |-> "folder", path |-> path]
GroupNode(path, children) ==
    [type |-> "group", path |-> path, children |-> children]

\* the structure literal
Template ==
    << <<"WhiteNoise", GroupNode("WhiteNoise", <<
        <<"App", [type |-> "group", children |-> <<
            <<"WhiteNoiseApp.swift", FileNode("WhiteNoise/WhiteNoiseApp.swift")>>,
            <<"Info.plist", FileNode("WhiteNoise/Info.plist")>>,
            <<"WhiteNoise.entitlements", FileNode("WhiteNoise/WhiteNoise.entitlements")>>,
            <<"LaunchScreen.storyboard", FileNode("WhiteNoise/LaunchScreen.storyboard")>>
        >>]>>,
        <<"Models", GroupNode("WhiteNoise/Models", <<>>)>>,
        <<"Views", GroupNode("WhiteNoise/Views", <<>>)>>,
        <<"ViewModels", GroupNode("WhiteNoise/ViewModels", <<>>)>>,
        <<"Services", GroupNode("WhiteNoise/Services", <<>>)>>,
        <<"Constants", GroupNode("WhiteNoise/Constants", <<>>)>>,
        <<"Extensions", GroupNode("WhiteNoise/Extensions", <<>>)>>,
        <<"Resources", GroupNode("WhiteNoise/Resources", <<>>)>>,
        <<"Sounds", GroupNode("WhiteNoise/Sounds", <<>>)>>,
        <<"Assets.xcassets", FolderNode("WhiteNoise/Assets.xcassets")>>,
        <<"Preview Content", GroupNode("WhiteNoise/Preview Content", <<
            <<"Preview Assets.xcassets",
              FolderNode("WhiteNoise/Preview Content/Preview Assets.xcassets")>>
        >>)>>
    >>)>> >>

groups_to_scan ==
    << <<"Models", "*.swift">>, <<"Views", "*.swift">>,
       <<"ViewModels", "*.swift">>, <<"Services", "*.swift">>,
       <<"Constants", "*.swift">>, <<"Extensions", "*.swift">>,
       <<"Resources", "*.json">> >>

\* structure["WhiteNoise"]["children"][group_name]
GroupOf(s, group_name) == Get(Get(s, "WhiteNoise").children, group_name)

\* structure["WhiteNoise"]["children"][group_name] = node
SetGroup(s, group_name, node) ==
    Put(s, "WhiteNoise",
        [Get(s, "WhiteNoise") EXCEPT !.children = Put(@, group_name, node)])

\* the file is stored among the children of "WhiteNoise" instead of those
\* of its group
SetGroupChildAtTop(s, group_name, key, node) ==
    Put(s, "WhiteNoise",
        [Get(s, "WhiteNoise") EXCEPT !.children = Put(@, key, node)])

\* structure["WhiteNoise"]["children"][group_name]["children"][key] = node
SetGroupChild(s, group_name, key, node) ==
    SetGroup(s, group_name,
             [GroupOf(s, group_name) EXCEPT !.children = Put(@, key, node)])

\* the path without the group directory
GroupFilePathFlat(group_name, name) == "WhiteNoise/" \o name

\* f"WhiteNoise/{group_name}/{file.name}"
GroupFilePath(group_name, name) == "WhiteNoise/" \o group_name \o "/" \o name

\* the body of the loop over glob(pattern) of one scanned group
RECURSIVE AddGroupFiles(_, _, _, _)
AddGroupFiles(s, group_name, group_path, names) ==
    IF names = <<>> THEN s
    ELSE LET name == Head(names)
             s1 == IF is_file(os_path_join(group_path, name))
                   THEN SetGroupChild(s, group_name, name,
                                      FileNode(GroupFilePath(group_name, name)))
                   ELSE s
         IN  AddGroupFiles(s1, group_name, group_path, Tail(names))

\* the loop over groups_to_scan
RECURSIVE ScanGroups(_, _, _)
ScanGroups(s, ls, groups) ==
    IF groups = <<>> THEN s
    ELSE LET group_name == Head(groups)[1]
             pattern == Head(groups)[2]
             group_path == <<"WhiteNoise", group_name>>
             s1 == IF os_path_exists(group_path)
                   THEN AddGroupFiles(s, group_name, group_path,
                                      glob(ls, group_path, pattern))
                   ELSE s
         IN  ScanGroups(s1, ls, Tail(groups))

\* f"WhiteNoise/Sounds/{subdir}"
SoundGroupPath(subdir) == "WhiteNoise/Sounds/" \o subdir

\* the path relative to WhiteNoise instead of the project root
SoundFilePathShort(subdir, name) == "Sounds/" \o subdir \o "/" \o name

\* f"WhiteNoise/Sounds/{subdir}/{file.name}"
SoundFilePath(subdir, name) == "WhiteNoise/Sounds/" \o subdir \o "/" \o name

\* the hidden-file test left out
IsSoundFileAny(subdir_path, name) == is_file(os_path_join(subdir_path, name))

\* file.is_file() and not file.name.startswith('.')
IsSoundFile(subdir_path, name) ==
    is_file(os_path_join(subdir_path, name)) /\ ~ startswith(name, ".")

\* the new group replaces the children of Sounds instead of joining them
SetSoundGroupOnly(s, subdir, node) ==
    SetGroup(s, "Sounds",
             [GroupOf(s, "Sounds") EXCEPT !.children = <<<<subdir, node>>>>])

\* structure["WhiteNoise"]["children"]["Sounds"]["children"][subdir] = node
SetSoundGroup(s, subdir, node) ==
    SetGroup(s, "Sounds",
             [GroupOf(s, "Sounds") EXCEPT !.children = Put(@, subdir, node)])

\* structure[...]["Sounds"]["children"][subdir]["children"][key] = node
SetSoundChild(s, subdir, key, node) ==
    LET sub == Get(GroupOf(s, "Sounds").children, subdir)
    IN  SetSoundGroup(s, subdir, [sub EXCEPT !.children = Put(@, key, node)])

\* the loop over glob("*") of one Sounds subdirectory
RECURSIVE AddSoundFiles(_, _, _, _)
AddSoundFiles(s, subdir, subdir_path, names) ==
    IF names = <<>> THEN s
    ELSE LET name == Head(names)
             s1 == IF IsSoundFile(subdir_path, name)
                   THEN SetSoundChild(s, subdir, name,
                                      FileNode(SoundFilePath(subdir, name)))
                   ELSE s
         IN  AddSoundFiles(s1, subdir, subdir_path, Tail(names))

\* the loop over os.listdir(sounds_path)
RECURSIVE ScanSounds(_, _, _)
ScanSounds(s, ls, subdirs) ==
    IF subdirs = <<>> THEN s
    ELSE LET subdir == Head(subdirs)
             subdir_path == <<"WhiteNoise", "Sounds", subdir>>
             s1 == IF os_path_isdir(subdir_path)
                   THEN AddSoundFiles(
                            SetSoundGroup(s, subdir,
                                GroupNode(SoundGroupPath(subdir), <<>>)),
                            subdir, subdir_path, glob(ls, subdir_path, "*"))
                   ELSE s
         IN  ScanSounds(s1, ls, Tail(subdirs))

sounds_path == <<"WhiteNoise", "Sounds">>

\* scan_directory raises when os.listdir(sounds_path) does
scan_raises == os_path_exists(sounds_path) /\ listdir_raises(sounds_path)

\* the value scan_directory returns when the directories are listed in the
\* orders ls
scan_directory(ls) ==
    LET s1 == ScanGroups(Template, ls, groups_to_scan)
    IN  IF os_path_exists(sounds_path)
        THEN ScanSounds(s1, ls, ls[sounds_path])
        ELSE s1

(***************************************************************************)
(* print_structure                                                         *)
(***************************************************************************)
\* one printed line: "  " * indent, the icon of the node type, the text
Line(indent, icon, text) == [indent |-> indent, icon |-> icon, text |-> text]

RECURSIVE print_structure(_, _)
print_structure(node, indent) ==
    IF node = <<>> THEN <<>>
    ELSE LET key == Head(node)[1]
             value == Head(node)[2]
             here ==
                 IF TypeOf(value) = "group"
                 THEN <<Line(indent, "group", key \o "/")>>
                      \o (IF HasChildren(value)
                          THEN print_structure(value.children, indent + 1)
                          ELSE <<>>)
                 ELSE IF TypeOf(value) = "file"
                 THEN <<Line(indent, "file", key)>>
                 ELSE IF TypeOf(value) = "folder"
                 THEN <<Line(indent, "folder", key)>>
                 ELSE <<Line(indent, "", key)>>
                      \o (IF HasChildren(value)
                          THEN <<Line(indent + 1, "", "children")>>
                               \o print_structure(value.children, indent + 2)
                          ELSE <<>>)
         IN  here \o print_structure(Tail(node), indent)

(***************************************************************************)
(* generate_file_list                                                      *)
(***************************************************************************)
\* the group name without its ancestors
NewGroupLeaf(current_group, key) == key

\* f"{current_group}/{key}" if current_group else key
NewGroup(current_group, key) ==
    IF current_group # "" THEN current_group \o "/" \o key ELSE key

\* every leaf that has a path is emitted
EmitsRecordAnyLeaf(value) == TypeOf(value) \in {"file", "folder"}

\* value.get("type") == "file"
EmitsRecord(value) == TypeOf(value) = "file"

RECURSIVE traverse(_, _)
traverse(node, current_group) ==
    IF node = <<>> THEN <<>>
    ELSE LET key == Head(node)[1]
             value == Head(node)[2]
             here ==
                 IF EmitsRecord(value)
                 THEN << [name |-> key, path |-> value.path,
                          group |-> current_group] >>
                 ELSE IF TypeOf(value) = "group" /\ HasChildren(value)
                 THEN traverse(value.children, NewGroup(current_group, key))
                 ELSE IF HasChildren(value)
                 THEN traverse(value.children, current_group)
                 ELSE <<>>
         IN  here \o traverse(Tail(node), current_group)

generate_file_list(s) == traverse(s, "")

(***************************************************************************)
(* __main__ : grouping and sorting of the flat list                        *)
(***************************************************************************)
\* the loop that fills grouped_files
RECURSIVE GroupFiles(_, _)
GroupFiles(grouped, fl) ==
    IF fl = <<>> THEN grouped
    ELSE LET file == Head(fl)
             group == file.group
             g1 == IF group \notin Keys(grouped)
                   THEN Put(grouped, group, <<>>)
                   ELSE grouped
         IN  GroupFiles(Put(g1, group, Append(Get(g1, group), file)), Tail(fl))

\* where a stable sort places the pair x = <<key, item>> in the sorted
\* sequence sq: before the first pair whose key is greater
RECURSIVE InsertSorted(_, _)
InsertSorted(sq, x) ==
    IF sq = <<>> THEN <<x>>
    ELSE IF str_lt(x[1], Head(sq)[1]) THEN <<x>> \o sq
    ELSE <<Head(sq)>> \o InsertSorted(Tail(sq), x)

\* sorted() of a sequence of <<key, item>> pairs by key, as a stable sort
RECURSIVE SortPairs(_)
SortPairs(sq) ==
    IF sq = <<>> THEN <<>>
    ELSE InsertSorted(SortPairs(SubSeq(sq, 1, Len(sq) - 1)), sq[Len(sq)])

\* sorted(grouped_files.items())
SortedGroups(grouped) == SortPairs(grouped)

\* sorted(files, key=lambda x: x["name"])
SortedFiles(fl) ==
    LET sp == SortPairs([i \in 1..Len(fl) |-> <<fl[i].name, fl[i]>>])
    IN  [i \in 1..Len(sp) |-> sp[i][2]]

\* the printed listing: one block per group, one line per file
Listing(grouped) ==
    LET sg == SortedGroups(grouped)
    IN  [i \in 1..Len(sg) |->
            [group |-> sg[i][1],
             lines |-> LET sf == SortedFiles(sg[i][2])
                       IN  [j \in 1..Len(sf) |->
                               [name |-> sf[j].name, path |-> sf[j].path]]]]

(***************************************************************************)
(* The run                                                                 *)
(***************************************************************************)
Init ==
    /\ fs \in FileSystems
    /\ pc = "build"
    /\ run = 1
    /\ structure = Unset
    /\ prev = Unset
    /\ tree_out = <<>>
    /\ files = <<>>
    /\ grouped_files = <<>>
    /\ listing_out = <<>>
    /\ json_file = Absent
    /\ error = NoError

\* structure = scan_directory(base_path)
ScanDirectory ==
    /\ pc = "build"
    /\ ~ scan_raises
    /\ \E ls \in Listings : structure' = scan_directory(ls)
    /\ pc' = "print"
    /\ UNCHANGED <<fs, run, prev, tree_out, files, grouped_files, listing_out,
                   json_file, error>>

\* scan_directory raises: the exception is not caught and ends the run
ScanDirectoryRaises ==
    /\ pc = "build"
    /\ scan_raises
    /\ pc' = "aborted"
    /\ error' = "build"
    /\ UNCHANGED <<fs, run, structure, prev, tree_out, files, grouped_files,
                   listing_out, json_file>>

\* the run goes from the tree straight to the dump
PrintStructureThenDump ==
    /\ pc = "print"
    /\ tree_out' = print_structure(structure, 0)
    /\ pc' = "serialize"
    /\ UNCHANGED <<fs, run, structure, prev, files, grouped_files, listing_out,
                   json_file, error>>

\* print_structure(structure)
PrintStructure ==
    /\ pc = "print"
    /\ tree_out' = print_structure(structure, 0)
    /\ pc' = "flatten"
    /\ UNCHANGED <<fs, run, structure, prev, files, grouped_files, listing_out,
                   json_file, error>>

\* files = generate_file_list(structure)
GenerateFileList ==
    /\ pc = "flatten"
    /\ files' = generate_file_list(structure)
    /\ pc' = "listing"
    /\ UNCHANGED <<fs, run, structure, prev, tree_out, grouped_files,
                   listing_out, json_file, error>>

\* the grouping loop and the printing loop; the printing loop rebinds
\* files to the sorted list of each group in turn
PrintListing ==
    /\ pc = "listing"
    /\ LET grouped == GroupFiles(<<>>, files)
           sg == SortedGroups(grouped)
       IN  /\ grouped_files' = grouped
           /\ listing_out' = Listing(grouped)
           /\ files' = IF sg = <<>> THEN files ELSE sg[Len(sg)][2]
    /\ pc' = "serialize"
    /\ UNCHANGED <<fs, run, structure, prev, tree_out, json_file, error>>

\* open(os.path.join(base_path, "project_structure.json"), "w") needs
\* base_path to be a directory
open_raises == ~ os_path_isdir(<<>>)

\* json.dump(structure, f, indent=2)
Serialize ==
    /\ pc = "serialize"
    /\ ~ open_raises
    /\ json_file' = Dumped(structure)
    /\ pc' = "done"
    /\ UNCHANGED <<fs, run, structure, prev, tree_out, files, grouped_files,
                   listing_out, error>>

\* open raises FileNotFoundError: nothing is written
SerializeRaises ==
    /\ pc = "serialize"
    /\ open_raises
    /\ pc' = "aborted"
    /\ error' = "serialize"
    /\ UNCHANGED <<fs, run, structure, prev, tree_out, files, grouped_files,
                   listing_out, json_file>>

\* the phases that perform input or output, which the operating system may
\* fail with an OSError: scan_directory does when it lists a directory,
\* the two printing phases and the dump always do
DoesIO ==
    \/ /\ pc = "build"
       /\ \E g \in ScannedGroups \cup {"Sounds"} :
              os_path_exists(<<"WhiteNoise", g>>)
    \/ pc \in {"print", "listing", "serialize"}

\* an OSError in the current phase: no handler catches it, the process
\* ends; a failed dump leaves the file as it was or truncated
IOError ==
    /\ DoesIO
    /\ pc' = "aborted"
    /\ error' = pc
    /\ \/ UNCHANGED json_file
       \/ pc = "serialize" /\ ~ open_raises /\ json_file' = Truncated
    /\ UNCHANGED <<fs, run, structure, prev, tree_out, files, grouped_files,
                   listing_out>>

\* the script is started again on the same filesystem after a run that
\* completed; prev keeps the tree of that run for comparison, and of the
\* process only the file it wrote survives
Rerun ==
    /\ pc = "done"
    /\ run < MaxRuns
    /\ run' = run + 1
    /\ prev' = structure
    /\ pc' = "build"
    /\ structure' = Unset
    /\ tree_out' = <<>>
    /\ files' = <<>>
    /\ grouped_files' = <<>>
    /\ listing_out' = <<>>
    /\ error' = NoError
    /\ UNCHANGED <<fs, json_file>>

Next ==
    \/ ScanDirectory
    \/ ScanDirectoryRaises
    \/ PrintStructure
    \/ GenerateFileList
    \/ PrintListing
    \/ Serialize
    \/ SerializeRaises
    \/ IOError
    \/ Rerun

Spec == Init /\ [][Next]_vars

(***************************************************************************)
(* Vocabulary of the properties                                            *)
(***************************************************************************)
StructureBuilt == structure # Unset

\* scan_directory has just returned its tree, which no later phase changes
Returned == pc = "print"

ChildrenOf(g) == GroupOf(structure, g).children

Range(sq) == {sq[i] : i \in 1..Len(sq)}

\* the names of the regular files directly inside directory p
RegularFilesIn(p) == {n \in EntryNames(p) : File(Append(p, n)) \in fs}

\* name is some stem, possibly empty, followed by ext
HasExtension(name, ext) ==
    \E i \in 1..Len(name) : SubSeq(name, i, Len(name)) = ext

Extension(g) == IF g = "Resources" THEN ".json" ELSE ".swift"

\* nothing exists below base_path/WhiteNoise, base_path itself may or may
\* not exist
WhiteNoiseAbsent == \A e \in fs : Len(e.path) = 0

\* every node of a tree with its key and the keys of its ancestors
RECURSIVE NodesOf(_, _)
NodesOf(d, chain) ==
    UNION {{[name |-> d[i][1], node |-> d[i][2], chain |-> chain]}
           \cup (IF HasChildren(d[i][2])
                 THEN NodesOf(d[i][2].children, Append(chain, d[i][1]))
                 ELSE {}) : i \in 1..Len(d)}

FileNodesOf(d) == {n \in NodesOf(d, <<>>) : TypeOf(n.node) = "file"}

\* str.split("/")
RECURSIVE SplitSlash(_)
SplitSlash(str) ==
    IF \E i \in 1..Len(str) : SubSeq(str, i, i) = "/"
    THEN LET i == CHOOSE j \in 1..Len(str) :
                      /\ SubSeq(str, j, j) = "/"
                      /\ \A k \in 1..(j - 1) : SubSeq(str, k, k) # "/"
         IN  <<SubSeq(str, 1, i - 1)>> \o SplitSlash(SubSeq(str, i + 1, Len(str)))
    ELSE <<str>>

\* a tree as a mapping that forgets the insertion order of every dict
RECURSIVE Unordered(_)
Unordered(d) ==
    [k \in Keys(d) |->
        IF HasChildren(Get(d, k))
        THEN [Get(d, k) EXCEPT !.children = Unordered(@)]
        ELSE Get(d, k)]

\* the tree with the children of the eight scanned groups removed
Emptied(s) ==
    LET wn == Get(s, "WhiteNoise")
        ch == wn.children
    IN  << <<"WhiteNoise",
             [wn EXCEPT !.children =
                 [i \in 1..Len(ch) |->
                     IF ch[i][1] \in ScannedGroups \cup {"Sounds"}
                     THEN <<ch[i][1], [ch[i][2] EXCEPT !.children = <<>>]>>
                     ELSE ch[i]]]>> >>

(***************************************************************************)
(* C1                                                                      *)
(***************************************************************************)
C1Scenario ==
    fs = WithParents({File(<<"WhiteNoise", "Services", "Logger.swift">>),
                      File(<<"WhiteNoise", "Resources", "config.json">>)})

ListingPrinted == pc \in {"serialize", "done"}

\* C1 as stated: with only Services/Logger.swift and Resources/config.json
\* below the root, the grouped listing shows the two groups
\* WhiteNoise/Services and WhiteNoise/Resources, each with one file.
C1_TwoGroups ==
    (C1Scenario /\ ListingPrinted) =>
        /\ Len(listing_out) = 2
        /\ {b.group : b \in Range(listing_out)}
              = {"WhiteNoise/Services", "WhiteNoise/Resources"}
        /\ \A b \in Range(listing_out) : Len(b.lines) = 1

\* C1 amended: in that scenario the grouped listing shows three groups:
\* WhiteNoise/App with the four files of the template, WhiteNoise/Resources
\* with config.json and WhiteNoise/Services with Logger.swift.
C1_ThreeGroups ==
    (C1Scenario /\ ListingPrinted) =>
        /\ Len(listing_out) = 3
        /\ \A b \in Range(listing_out) :
              Len(b.lines) = Cardinality(Range(b.lines))
        /\ {<<b.group, Range(b.lines)>> : b \in Range(listing_out)} =
             { <<"WhiteNoise/App",
                 { [name |-> "WhiteNoiseApp.swift",
                    path |-> "WhiteNoise/WhiteNoiseApp.swift"],
                   [name |-> "Info.plist", path |-> "WhiteNoise/Info.plist"],
                   [name |-> "WhiteNoise.entitlements",
                    path |-> "WhiteNoise/WhiteNoise.entitlements"],
                   [name |-> "LaunchScreen.storyboard",
                    path |-> "WhiteNoise/LaunchScreen.storyboard"] }>>,
               <<"WhiteNoise/Resources",
                 { [name |-> "config.json",
                    path |-> "WhiteNoise/Resources/config.json"] }>>,
               <<"WhiteNoise/Services",
                 { [name |-> "Logger.swift",
                    path |-> "WhiteNoise/Services/Logger.swift"] }>> }

C1_Witness ==
    /\ C1Scenario
    /\ pc = "done"
    /\ Len(listing_out) = 3
    /\ \E b \in Range(listing_out) :
          b.group = "WhiteNoise/Services" /\ Len(b.lines) = 1

(***************************************************************************)
(* C2                                                                      *)
(***************************************************************************)
\* C2: for every scanned group whose directory exists, the children of the
\* group in the returned tree are exactly the regular files of the
\* directory whose name has the group's extension, each keyed by its name
\* with type file and path WhiteNoise/<group>/<name>.
C2_GroupChildren ==
    Returned =>
        \A g \in ScannedGroups :
            os_path_isdir(<<"WhiteNoise", g>>) =>
                LET expected == {n \in RegularFilesIn(<<"WhiteNoise", g>>) :
                                    HasExtension(n, Extension(g))}
                IN  /\ Keys(ChildrenOf(g)) = expected
                    /\ Len(ChildrenOf(g)) = Cardinality(expected)
                    /\ \A n \in expected :
                          Get(ChildrenOf(g), n) =
                             [type |-> "file",
                              path |-> "WhiteNoise/" \o g \o "/" \o n]

C2_Witness ==
    /\ StructureBuilt
    /\ File(<<"WhiteNoise", "Models", "Foo.swift">>) \in fs
    /\ File(<<"WhiteNoise", "Models", "Bar.swift">>) \in fs
    /\ File(<<"WhiteNoise", "Views", "config.json">>) \in fs
    /\ Keys(ChildrenOf("Models")) = {"Foo.swift", "Bar.swift"}
    /\ ChildrenOf("Views") = <<>>

(***************************************************************************)
(* C3                                                                      *)
(***************************************************************************)
RecordsUnder(group) == {i \in 1..Len(files) : files[i].group = group}

\* C3: for every immediate subdirectory S of WhiteNoise/Sounds the flat list
\* holds under group WhiteNoise/Sounds/<S> exactly one record per file
\* directly inside S whose name does not start with ".", and no record
\* for a file whose name starts with ".".
C3_SoundRecords ==
    pc = "listing" =>
        \A sub \in EntryNames(sounds_path) :
            os_path_isdir(<<"WhiteNoise", "Sounds", sub>>) =>
                LET recs == RecordsUnder("WhiteNoise/Sounds/" \o sub)
                    visible ==
                        {n \in RegularFilesIn(<<"WhiteNoise", "Sounds", sub>>) :
                            Head(n) # "."}
                IN  /\ {files[i].name : i \in recs} = visible
                    /\ Cardinality(recs) = Cardinality(visible)
                    /\ \A i \in recs : Head(files[i].name) # "."

C3_Witness ==
    /\ pc = "listing"
    /\ RegularFilesIn(<<"WhiteNoise", "Sounds", "Rain">>)
          = {"rain1.mp3", "rain2.mp3", ".DS_Store"}
    /\ Cardinality(RecordsUnder("WhiteNoise/Sounds/Rain")) = 2

(***************************************************************************)
(* C4                                                                      *)
(***************************************************************************)
\* C4: when nothing exists below the root's WhiteNoise (the root itself may
\* be missing), scan_directory does not raise and returns the template,
\* all of whose scanned groups have no children.
C4_AbsentGivesTemplate ==
    (WhiteNoiseAbsent /\ pc # "build") =>
        /\ error # "build"
        /\ structure = Template
        /\ \A g \in ScannedGroups \cup {"Sounds"} : ChildrenOf(g) = <<>>

C4_Witness ==
    /\ fs = {}
    /\ pc = "print"
    /\ structure = Template

(***************************************************************************)
(* C5                                                                      *)
(***************************************************************************)
\* C5: the group of every record of the flat list, split on "/", is the
\* chain of the names of the groups above the file in the tree, from
\* "WhiteNoise" down to the file's parent.
C5_GroupIsAncestorChain ==
    pc = "listing" =>
        LET fileNodes == FileNodesOf(structure)
        IN  \A i \in 1..Len(files) :
                \E n \in fileNodes :
                    /\ n.name = files[i].name
                    /\ n.node.path = files[i].path
                    /\ n.chain = SplitSlash(files[i].group)
                    /\ n.chain[1] = "WhiteNoise"

C5_Witness ==
    /\ pc = "listing"
    /\ \E i \in 1..Len(files) :
          /\ files[i].name = "rain1.mp3"
          /\ SplitSlash(files[i].group) = <<"WhiteNoise", "Sounds", "Rain">>

(***************************************************************************)
(* C6                                                                      *)
(***************************************************************************)
\* C6: the flat list has exactly one record for each file node of the tree,
\* with the node's name and path, and no record for a folder or group
\* node.
C6_OneRecordPerFile ==
    pc = "listing" =>
        LET nodes == NodesOf(structure, <<>>)
            fileNodes == {n \in nodes : TypeOf(n.node) = "file"}
            records == {<<r.name, r.path>> : r \in Range(files)}
        IN  /\ Len(files) = Cardinality(fileNodes)
            /\ records = {<<n.name, n.node.path>> : n \in fileNodes}
            /\ Cardinality(records) = Len(files)
            /\ \A n \in nodes :
                  TypeOf(n.node) \in {"folder", "group"} =>
                      \A r \in Range(files) : r.name # n.name

C6_Witness ==
    /\ pc = "listing"
    /\ Len(files) = 6
    /\ \E r \in Range(files) : r.name = "waves.mp3"
    /\ \E n \in NodesOf(structure, <<>>) :
          n.name = "Preview Assets.xcassets" /\ n.node.type = "folder"

(***************************************************************************)
(* C7                                                                      *)
(***************************************************************************)
\* C7: every node of the returned tree has one kind among group, file and
\* folder; only group nodes have children; every file or folder node has
\* a path that starts with "WhiteNoise/".
C7_NodeShape ==
    Returned =>
        \A n \in NodesOf(structure, <<>>) :
            /\ "type" \in DOMAIN n.node
            /\ n.node.type \in {"group", "file", "folder"}
            /\ HasChildren(n.node) => n.node.type = "group"
            /\ n.node.type \in {"file", "folder"} =>
                  /\ ~ HasChildren(n.node)
                  /\ "path" \in DOMAIN n.node
                  /\ Len(n.node.path) > Len("WhiteNoise/")
                  /\ SubSeq(n.node.path, 1, Len("WhiteNoise/")) = "WhiteNoise/"

C7_Witness ==
    /\ StructureBuilt
    /\ \E n \in NodesOf(structure, <<>>) :
          /\ n.chain = <<"WhiteNoise", "Sounds", "Ocean">>
          /\ n.node.type = "file"
    /\ \E n \in NodesOf(structure, <<>>) :
          /\ n.chain = <<"WhiteNoise", "Views">>
          /\ n.node.type = "file"

(***************************************************************************)
(* C8                                                                      *)
(***************************************************************************)
\* C8: a second scan of the unchanged filesystem returns a tree with the
\* same keys in every group and the same type and path at every node as
\* the first; only the insertion order may differ.
C8_Idempotent ==
    (run >= 2 /\ Returned) => Unordered(structure) = Unordered(prev)

C8_Witness ==
    /\ run >= 2
    /\ StructureBuilt
    /\ structure # prev
    /\ Len(ChildrenOf("Sounds")) = 2

(***************************************************************************)
(* C9                                                                      *)
(***************************************************************************)
PhaseOrder ==
    { <<"build", "print">>, <<"print", "flatten">>, <<"flatten", "listing">>,
      <<"listing", "serialize">>, <<"serialize", "done">> }

Phases == {"build", "print", "flatten", "listing", "serialize"}

C9_Step ==
    \* a step either stays in the phase, goes to the next one, aborts the
    \* run, or starts a new run after a completed one
    /\ \/ pc' = pc
       \/ <<pc, pc'>> \in PhaseOrder
       \/ pc \in Phases /\ pc' = "aborted" /\ error' = pc
       \/ pc = "done" /\ pc' = "build" /\ run' = run + 1
    \* nothing runs after an abort
    /\ pc = "aborted" => UNCHANGED vars
    \* the file is written by the last phase only, after the tree was
    \* built and printed and the listing was printed, and a run that
    \* completes has written the whole tree
    /\ json_file' # json_file =>
          /\ pc = "serialize"
          /\ StructureBuilt
          /\ tree_out # <<>>
          /\ listing_out # <<>>
    /\ pc' = "done" => json_file' = Dumped(structure')

\* C9: a run goes through build, print tree, flatten and print listing,
\* serialize in this order; it completes all of them or aborts at the first
\* error, after which no phase executes, and project_structure.json is
\* written only after the three earlier phases completed.
C9_PhaseOrder == [][C9_Step]_vars

C9_Witness ==
    /\ pc = "aborted"
    /\ error = "listing"
    /\ tree_out # <<>>
    /\ listing_out = <<>>
    /\ json_file = Absent

(***************************************************************************)
(* C10                                                                     *)
(***************************************************************************)
\* C10: files found in the directory of a group are added under that group
\* only, the Sounds scan adds under Sounds only, and apart from the
\* children of the eight scanned groups the returned tree is the
\* template.
C10_Frame ==
    Returned =>
        /\ Emptied(structure) = Template
        /\ \A g \in ScannedGroups :
              /\ Keys(ChildrenOf(g)) \subseteq RegularFilesIn(<<"WhiteNoise", g>>)
              /\ \A c \in Range(ChildrenOf(g)) :
                    c[2].path = "WhiteNoise/" \o g \o "/" \o c[1]
        /\ Keys(ChildrenOf("Sounds")) \subseteq EntryNames(sounds_path)
        /\ \A c \in Range(ChildrenOf("Sounds")) :
              /\ c[2].path = "WhiteNoise/Sounds/" \o c[1]
              /\ Keys(c[2].children)
                    \subseteq RegularFilesIn(<<"WhiteNoise", "Sounds", c[1]>>)

C10_Witness ==
    /\ StructureBuilt
    /\ Keys(ChildrenOf("Models")) = {"Logger.swift"}
    /\ Keys(ChildrenOf("Views")) = {"Logger.swift"}
    /\ Keys(ChildrenOf("Sounds")) = {"Rain"}
    /\ ChildrenOf("Services") = <<>>

====
